---- MODULE Spec2Model ----
(***************************************************************************)
(* A model of turkeyfundsdata: the KAP listing scraper (scrapeKAP.py) and  *)
(* the TEFAS time-series fetcher (tefas.py).                               *)
(*                                                                         *)
(* A DataFrame is a sequence of rows, a row a record of its columns.  A    *)
(* page is represented by what BeautifulSoup's scan of it yields, in       *)
(* document order.  Four specifications share the variables; each moves    *)
(* only the variables of the function it runs:                             *)
(*   SpecListing   fon_data                                                *)
(*   SpecRegistry  get_all                                                 *)
(*   SpecFetch     get_fund_data                                           *)
(*   SpecRange     get_fund_data_for_years                                 *)
(***************************************************************************)
EXTENDS Integers, Sequences, FiniteSets, TLC

VARIABLES
    fon_pc,        \* fon_data: "start" | "returned" | "raised"
    fon_tags,      \* fon_data: the <a> tags of the fetched page (soup.find_all('a'))
    fon_df,        \* fon_data: the returned DataFrame
    g_pc,          \* get_all: "running" | "returned" | the exception raised
    g_next,        \* get_all: index in FetchSequence of the next fetch
    g_issued,      \* get_all: the fetches issued so far and the status of each, in order
    data1,         \* get_all: the concatenated listing table
    data2,         \* get_all: the detail tables fetched so far, in fetch order
    g_pages,       \* get_all: the pages the issued fetches were answered with
    funds,         \* get_all: the returned registry
    t_pc,          \* get_fund_data: "start" | "info" | "returned" | the exception raised
    t_requests,    \* get_fund_data: the requests posted so far and the status of each
    df_info,       \* get_fund_data: the normalised info table
    df_allocation, \* get_fund_data: the normalised allocation table
    t_result,      \* get_fund_data: what the call returned
    r_pc,          \* get_fund_data_for_years: "start" | "loop" | "returned" | the exception raised
    arg_years,     \* get_fund_data_for_years: the argument years, in 1/TicksPerDay of a year
    years,         \* get_fund_data_for_years: the local years after line 125, same unit
    end_date,      \* get_fund_data_for_years: datetime.now(), in ticks
    start_date,    \* get_fund_data_for_years: in ticks
    date1,         \* get_fund_data_for_years: the cursor, in ticks
    r_calls,       \* get_fund_data_for_years: the get_fund_data calls made, in order
    dataframes,    \* get_fund_data_for_years: what the calls returned, in order
    final_df       \* get_fund_data_for_years: the returned table

vars == <<fon_pc, fon_tags, fon_df, g_pc, g_next, g_issued, data1, data2, g_pages, funds,
          t_pc, t_requests, df_info, df_allocation, t_result,
          r_pc, arg_years, years, end_date, start_date, date1, r_calls, dataframes, final_df>>

fonVars == <<fon_pc, fon_tags, fon_df>>
regVars == <<g_pc, g_next, g_issued, data1, data2, g_pages, funds>>
fetchVars == <<t_pc, t_requests, df_info, df_allocation, t_result>>
rangeVars == <<r_pc, arg_years, years, end_date, start_date, date1, r_calls, dataframes, final_df>>

(***************************************************************************)
(* Bounds of the model.                                                    *)
(***************************************************************************)
\* the longest page of <a> tags fon_data is run on alone
MaxTags == 5
\* the matched links of all ten listing pages of one get_all call together
MaxLinks == 2
\* the data anchors of all twelve detail pages of one get_all call together
MaxAnchors == 2
\* the rows of one JSON answer to get_fund_data run alone
MaxRows == 2
\* the parts a day and a year are divided in: years and datetime.now() are taken
\* at multiples of 1/TicksPerDay
TicksPerDay == 2
\* the years handed to get_fund_data_for_years: every multiple of 1/TicksPerDay
\* up to SmallYears, then 5, the next multiple above 5, and MaxYears
SmallYears == 2
MaxYears == 7
\* the day get_fund_data_for_years is run on, as a day number
NowDay == 20000
\* the chunks of one get_fund_data_for_years call that come back None
MaxFailures == 1
\* the units of an epoch timestamp (TARIH) to the day
StampsPerDay == 4

\* the titles of the model in the order pandas sorts them, the empty text first
TitleOrder == <<"", "T1", "T2">>

\* the link texts of the page fon_data is run on alone (get_text(strip=True))
Texts == {TitleOrder[i] : i \in 2..Len(TitleOrder)}

\* the link and label texts of the pages of one get_all call
RegistryTexts == {"T1"}

\* pandas' missing value
NaN == "NaN"
\* Python's None
None == "None"

\* HTTP status codes a server answers with
Statuses == {200, 404, 500}

(***************************************************************************)
(* requests: response.raise_for_status()                                   *)
(***************************************************************************)
\* mutant: only the server errors raise
RaisesForStatusServerOnly(status) == status >= 500 /\ status < 600

RaisesForStatus(status) == status >= 400 /\ status < 600

(***************************************************************************)
(* fon_data                                                                *)
(***************************************************************************)
desired_classes == {"comp-cell _04 vtable", "comp-cell _08 vtable", "comp-cell _009 vtable"}

\* the parent classes a tag of the model can sit under
ParentClasses == {"comp-cell _08 vtable", "w-col"}

Tags == [parent_class : ParentClasses, text : Texts]

\* the sequences over S whose length is at most n
SeqUpTo(S, n) == UNION {[1..k -> S] : k \in 0..n}

\* lines 43-49: the texts of the tags whose parent carries a desired class
RECURSIVE HrefList(_)
HrefList(tags) ==
    IF tags = <<>> THEN <<>>
    ELSE LET rest == HrefList(Tail(tags))
         IN  IF Head(tags).parent_class \in desired_classes
             THEN <<Head(tags).text>> \o rest
             ELSE rest

\* lines 54-63: one iteration of the grouping loop, i counted from 0 as enumerate does
GroupStep(data, i, href) ==
    LET remainder == (i + 1) % 3
        last == Len(data)
    IN  IF remainder = 1
        THEN Append(data, [CODE |-> href, TITLE |-> "", FOUNDER |-> ""])
        ELSE IF remainder = 2
        THEN [data EXCEPT ![last].TITLE = href]
        ELSE [data EXCEPT ![last].FOUNDER = href]

\* lines 52-66: the grouping loop over the first n entries of href_list
RECURSIVE GroupLoop(_, _)
GroupLoop(href_list, n) ==
    IF n = 0 THEN <<>>
    ELSE GroupStep(GroupLoop(href_list, n - 1), n - 1, href_list[n])

\* mutant: the loop runs over the complete groups of three only
FonDataFrameWholeGroups(tags) == GroupLoop(HrefList(tags), (Len(HrefList(tags)) \div 3) * 3)

\* lines 36-68: the DataFrame fon_data builds from a fetched page
FonDataFrame(tags) == GroupLoop(HrefList(tags), Len(HrefList(tags)))

\* fon_data, the fetch answered with an error status: raise_for_status raises
FonDataRaises ==
    /\ fon_pc = "start"
    /\ \E status \in Statuses :
        /\ RaisesForStatus(status)
        /\ fon_pc' = "raised"
    /\ UNCHANGED <<fon_tags, fon_df>>
    /\ UNCHANGED <<regVars, fetchVars, rangeVars>>

\* fon_data, the fetch answered with a page
FonDataReturns ==
    /\ fon_pc = "start"
    /\ \E status \in Statuses, tags \in SeqUpTo(Tags, MaxTags) :
        /\ ~RaisesForStatus(status)
        /\ fon_tags' = tags
        /\ fon_df' = FonDataFrame(tags)
        /\ fon_pc' = "returned"
    /\ UNCHANGED <<regVars, fetchVars, rangeVars>>

(***************************************************************************)
(* get_fund_detail and get_fund_detail2                                    *)
(***************************************************************************)
\* an anchor without a <span>
NoSpan == "NoSpan"

\* lines 101-107: one row per anchor that has a span and at least one info div
RECURSIVE FundDetail(_)
FundDetail(anchors) ==
    IF anchors = <<>> THEN <<>>
    ELSE LET tag == Head(anchors)
             rest == FundDetail(Tail(anchors))
         IN  IF tag.span # NoSpan /\ Len(tag.divs) >= 1
             THEN <<[TITLE |-> tag.span, VALUE |-> tag.divs[1]]>> \o rest
             ELSE rest

\* lines 145-154: the span text, when there is a span, then every info div
RowData(tag) == (IF tag.span # NoSpan THEN <<tag.span>> ELSE <<>>) \o tag.divs

Max(S) == CHOOSE x \in S : \A y \in S : y <= x

\* line 158: max(len(row) for row in data), defined when data is not empty
MaxColumns(anchors) == Max({Len(RowData(anchors[i])) : i \in 1..Len(anchors)})

\* line 164: a short row is padded with None
Cell(row, c) == IF c <= Len(row) THEN row[c] ELSE None

\* what get_fund_detail2 ends with: the exception it raises, or "returns"
FundDetail2Outcome(anchors) ==
    IF anchors = <<>> THEN "ValueError"
    ELSE IF MaxColumns(anchors) < 3 THEN "IndexError"
    ELSE "returns"

\* lines 164-171: the rows after the first, their first and third columns
FundDetail2(anchors) ==
    [i \in 1..(Len(anchors) - 1) |->
        [TITLE |-> Cell(RowData(anchors[i + 1]), 1),
         VALUE |-> Cell(RowData(anchors[i + 1]), 3)]]

(***************************************************************************)
(* get_all                                                                 *)
(***************************************************************************)
url_ends == <<"YF", "EYF", "OKS", "BYF", "GMF", "GSF", "YYF", "VFF", "KFF", "PFF">>

\* lines 204-234: the detail fetches in the order get_all issues them
DetailFetches ==
    << [name |-> "kpy81_acc1_kurucu_unvan",          kind |-> "detail"],
       [name |-> "kpy81_acc1_kurucu_unvan_2",        kind |-> "detail"],
       [name |-> "kpy81_acc1_portfoy_ticaret_unvan", kind |-> "detail"],
       [name |-> "kpy81_acc1_portfoy_yon_kurulus",   kind |-> "detail2"],
       [name |-> "kpy81_acc1_yonetici_unvan",        kind |-> "detail"],
       [name |-> "kpy81_acc1_ISIN",                  kind |-> "detail"],
       [name |-> "kpy81_acc1_fonun_risk_degeri",     kind |-> "detail"],
       [name |-> "kpy81_acc1_fon_tur",               kind |-> "detail"],
       [name |-> "kpy81_acc1_fon_icerigi",           kind |-> "detail"],
       [name |-> "kpy81_acc1_bdk",                   kind |-> "detail"],
       [name |-> "kpy81_acc1_halka_arz1",            kind |-> "detail"],
       [name |-> "kpy81_acc1_halka_arz2",            kind |-> "detail2"] >>

\* lines 195-234: every fetch of get_all in the order the code issues them
FetchSequence ==
    [i \in 1..Len(url_ends) |-> [name |-> url_ends[i], kind |-> "listing"]] \o DetailFetches

\* lines 196-198: the listing of one category, stamped with its KIND
Stamped(df, url_end) ==
    [i \in 1..Len(df) |->
        [CODE |-> df[i].CODE, TITLE |-> df[i].TITLE,
         FOUNDER |-> df[i].FOUNDER, KIND |-> url_end]]

\* lines 200-202: REPRESENTATIVE from FOUNDER for the YYF rows, FOUNDER dropped
Representative(df) ==
    [i \in 1..Len(df) |->
        [CODE |-> df[i].CODE, TITLE |-> df[i].TITLE, KIND |-> df[i].KIND,
         REPRESENTATIVE |-> IF df[i].KIND = "YYF" THEN df[i].FOUNDER ELSE NaN]]

\* a two-column detail table under its column name
Named(df, col) == [i \in 1..Len(df) |-> [TITLE |-> df[i].TITLE] @@ (col :> df[i].VALUE)]

RECURSIVE ConcatAll(_)
ConcatAll(dfs) == IF dfs = <<>> THEN <<>> ELSE Head(dfs) \o ConcatAll(Tail(dfs))

\* the cell texts of the model that hold a '-'
DashTexts == {"-"}

\* line 237: None and the texts holding a '-' become NaN
IpoNaN(df) ==
    [i \in 1..Len(df) |->
        [df[i] EXCEPT !.VALUE = IF @ = None \/ @ \in DashTexts THEN NaN ELSE @]]

\* the rows of df whose TITLE is k
WithTitle(df, k) == SelectSeq(df, LAMBDA r : r.TITLE = k)

\* mutant: how='left', a key of the right table alone is dropped
MergeKeyLeft(left, right, leftCols, col, k) ==
    LET L == WithTitle(left, k)
        R == WithTitle(right, k)
    IN  IF R = <<>>
        THEN [i \in 1..Len(L) |-> L[i] @@ (col :> NaN)]
        ELSE [n \in 1..(Len(L) * Len(R)) |->
                L[((n - 1) \div Len(R)) + 1] @@ (col :> R[((n - 1) % Len(R)) + 1][col])]

\* line 245, the rows of one key: every left row with every right row; a row with
\* no partner on the other side is kept, the other side's columns NaN
MergeKey(left, right, leftCols, col, k) ==
    LET L == WithTitle(left, k)
        R == WithTitle(right, k)
    IN  IF R = <<>>
        THEN [i \in 1..Len(L) |-> L[i] @@ (col :> NaN)]
        ELSE IF L = <<>>
        THEN [i \in 1..Len(R) |->
                [c \in leftCols |-> IF c = "TITLE" THEN k ELSE NaN] @@ (col :> R[i][col])]
        ELSE [n \in 1..(Len(L) * Len(R)) |->
                L[((n - 1) \div Len(R)) + 1] @@ (col :> R[((n - 1) % Len(R)) + 1][col])]

\* line 245: pd.merge(funds, df, on='TITLE', how='outer'), the keys in sorted order
OuterMerge(left, right, leftCols, col) ==
    ConcatAll([j \in 1..Len(TitleOrder) |-> MergeKey(left, right, leftCols, col, TitleOrder[j])])

\* line 239: the tables merged onto data1, with the column each brings, in order
MergeColumns == <<"FOUNDER", "ISIN", "RD", "MANAGER", "TYPE", "INTEREST", "AUDITOR", "IPO_DATE">>

BaseColumns == {"CODE", "TITLE", "KIND", "REPRESENTATIVE"}

\* lines 242-245: the first n tables of dfs[1:] merged onto funds one after the other
RECURSIVE MergeLoop(_, _, _)
MergeLoop(base, dfs, n) ==
    IF n = 0 THEN base
    ELSE OuterMerge(MergeLoop(base, dfs, n - 1), dfs[n],
                    BaseColumns \cup {MergeColumns[j] : j \in 1..(n - 1)}, MergeColumns[n])

\* the dates to_datetime can parse with format %d/%m/%Y
NaT == "NaT"
ToDatetime(x) == IF x = "15/06/2020" THEN <<2020, 6, 15>> ELSE NaT

\* lines 247-248: a single space becomes None, then the text is parsed, errors coerced
IpoDate(df) ==
    [i \in 1..Len(df) |->
        [df[i] EXCEPT !.IPO_DATE = ToDatetime(IF @ = " " THEN None ELSE @)]]

\* lines 204-239: the eight detail tables from the twelve fetched pages
Dfs(d) ==
    << Named(d[1] \o d[2], "FOUNDER"),
       Named(d[6], "ISIN"),
       Named(d[7], "RD"),
       Named(d[3] \o d[4] \o d[5], "MANAGER"),
       Named(d[8], "TYPE"),
       Named(d[9], "INTEREST"),
       Named(d[10], "AUDITOR"),
       Named(IpoNaN(d[11] \o d[12]), "IPO_DATE") >>

\* lines 200-250: the registry from the listing table and the twelve detail tables
Registry(listing, d) ==
    IpoDate(MergeLoop(Representative(listing), Dfs(d), Len(MergeColumns)))

(***************************************************************************)
(* The pages get_all is answered with.                                     *)
(***************************************************************************)
\* the tags of a listing page that fon_data retains
MatchedTags == {t \in Tags : t.parent_class \in desired_classes /\ t.text \in RegistryTexts}

\* the text of the info divs of the detail pages
DivText(name) ==
    IF name \in {"kpy81_acc1_halka_arz1", "kpy81_acc1_halka_arz2"} THEN "15/06/2020" ELSE "v"

\* the anchors of a detail page: a label span and k info divs
DataAnchors(name, k) == {[span |-> t, divs |-> [j \in 1..k |-> DivText(name)]] : t \in RegistryTexts}

\* the first anchor of a get_fund_detail2 page holds the column labels
HeaderAnchor(k) == [span |-> "Fon", divs |-> [j \in 1..k |-> "h"]]

RECURSIVE SumLen(_)
SumLen(pages) == IF pages = <<>> THEN 0 ELSE Len(Head(pages)) + SumLen(Tail(pages))

\* the matched links received so far
LinksUsed == SumLen(SubSeq(g_pages, 1, IF Len(g_pages) < Len(url_ends) THEN Len(g_pages) ELSE Len(url_ends)))

\* the rows of the detail tables fetched so far
AnchorsUsed == SumLen(data2)

Fetch == FetchSequence[g_next]

\* lines 32-33, 90-91, 134-135: a fetch answered with an error status raises
GetAllFetchRaises ==
    /\ g_pc = "running"
    /\ \E status \in Statuses :
        /\ RaisesForStatus(status)
        /\ g_issued' = Append(g_issued, [name |-> Fetch.name, status |-> status])
        /\ g_pc' = "HTTPError"
    /\ UNCHANGED <<g_next, data1, data2, g_pages, funds>>
    /\ UNCHANGED <<fonVars, fetchVars, rangeVars>>

\* lines 195-198: one category listing fetched and appended to data1
GetAllListing ==
    /\ g_pc = "running"
    /\ Fetch.kind = "listing"
    /\ \E status \in Statuses, tags \in SeqUpTo(MatchedTags, MaxLinks - LinksUsed) :
        /\ ~RaisesForStatus(status)
        /\ g_issued' = Append(g_issued, [name |-> Fetch.name, status |-> status])
        /\ g_pages' = Append(g_pages, tags)
        /\ data1' = data1 \o Stamped(FonDataFrame(tags), Fetch.name)
        /\ g_next' = g_next + 1
    /\ UNCHANGED <<g_pc, data2, funds>>
    /\ UNCHANGED <<fonVars, fetchVars, rangeVars>>

\* lines 204-233: one get_fund_detail page fetched
GetAllDetail ==
    /\ g_pc = "running"
    /\ Fetch.kind = "detail"
    /\ \E status \in Statuses,
          anchors \in SeqUpTo(DataAnchors(Fetch.name, 1), MaxAnchors - AnchorsUsed) :
        /\ ~RaisesForStatus(status)
        /\ g_issued' = Append(g_issued, [name |-> Fetch.name, status |-> status])
        /\ g_pages' = Append(g_pages, anchors)
        /\ data2' = Append(data2, FundDetail(anchors))
        /\ g_next' = g_next + 1
    /\ UNCHANGED <<g_pc, data1, funds>>
    /\ UNCHANGED <<fonVars, fetchVars, rangeVars>>

\* the pages a get_fund_detail2 fetch is answered with: no anchor at all, a header
\* of two columns, or a header of three columns and data anchors
Detail2Pages ==
    {<<>>, <<HeaderAnchor(1)>>}
    \cup {<<HeaderAnchor(2)>> \o rows :
            rows \in SeqUpTo(DataAnchors(Fetch.name, 2), MaxAnchors - AnchorsUsed)}

\* lines 158, 171: get_fund_detail2 raises on a page without anchors or with fewer
\* than three columns
GetAllDetail2Raises ==
    /\ g_pc = "running"
    /\ Fetch.kind = "detail2"
    /\ \E status \in Statuses, anchors \in Detail2Pages :
        /\ ~RaisesForStatus(status)
        /\ FundDetail2Outcome(anchors) # "returns"
        /\ g_issued' = Append(g_issued, [name |-> Fetch.name, status |-> status])
        /\ g_pages' = Append(g_pages, anchors)
        /\ g_pc' = FundDetail2Outcome(anchors)
    /\ UNCHANGED <<g_next, data1, data2, funds>>
    /\ UNCHANGED <<fonVars, fetchVars, rangeVars>>

\* line 211: the get_fund_detail2 page of the manager table fetched
GetAllDetail2 ==
    /\ g_pc = "running"
    /\ Fetch.kind = "detail2"
    /\ g_next < Len(FetchSequence)
    /\ \E status \in Statuses, anchors \in Detail2Pages :
        /\ ~RaisesForStatus(status)
        /\ FundDetail2Outcome(anchors) = "returns"
        /\ g_issued' = Append(g_issued, [name |-> Fetch.name, status |-> status])
        /\ g_pages' = Append(g_pages, anchors)
        /\ data2' = Append(data2, FundDetail2(anchors))
        /\ g_next' = g_next + 1
    /\ UNCHANGED <<g_pc, data1, funds>>
    /\ UNCHANGED <<fonVars, fetchVars, rangeVars>>

\* lines 234-250: the last page fetched, the tables merged, the registry returned
GetAllReturns ==
    /\ g_pc = "running"
    /\ Fetch.kind = "detail2"
    /\ g_next = Len(FetchSequence)
    /\ \E status \in Statuses, anchors \in Detail2Pages :
        /\ ~RaisesForStatus(status)
        /\ FundDetail2Outcome(anchors) = "returns"
        /\ g_issued' = Append(g_issued, [name |-> Fetch.name, status |-> status])
        /\ g_pages' = Append(g_pages, anchors)
        /\ data2' = Append(data2, FundDetail2(anchors))
        /\ funds' = Registry(data1, data2')
        /\ g_pc' = "returned"
    /\ UNCHANGED <<g_next, data1>>
    /\ UNCHANGED <<fonVars, fetchVars, rangeVars>>

(***************************************************************************)
(* get_fund_data                                                           *)
(***************************************************************************)
\* lines 72-74, 85-87: to_datetime(unit='ms') and strftime('%Y-%m-%d') take the epoch
\* timestamp to its calendar day, the time of day dropped.  The timestamps of the
\* model count 1/StampsPerDay of a day instead of milliseconds, for the 32 bits of
\* TLC's integers.
Day(ms) == ms \div StampsPerDay

\* a body that response.json() cannot decode
NotJson == [json |-> FALSE, data |-> <<>>]

\* mutant: only the server errors count as a failed info request
InfoFailedServerOnly(status) == status >= 500

\* line 68: response_info.status_code != 200
InfoFailed(status) == status # 200

\* lines 71-72, 84-85: response.json() raises on a body that is no JSON, and the
\* TARIH column is missing from the table of an empty data array
BodyOutcome(body) ==
    IF ~body.json THEN "JSONDecodeError"
    ELSE IF body.data = <<>> THEN "KeyError"
    ELSE "ok"

\* lines 71-79: the info table, TARIH normalised to the day
InfoTable(body) ==
    [i \in 1..Len(body.data) |->
        [TARIH |-> Day(body.data[i].TARIH), FONKODU |-> body.data[i].FONKODU,
         FONUNVAN |-> body.data[i].FONUNVAN, FIYAT |-> body.data[i].FIYAT]]

\* lines 84-92: the allocation table, TARIH normalised to the day
AllocationTable(body) ==
    [i \in 1..Len(body.data) |->
        [TARIH |-> Day(body.data[i].TARIH), FONKODU |-> body.data[i].FONKODU,
         FONUNVAN |-> body.data[i].FONUNVAN, HS |-> body.data[i].HS]]

\* the join key of a row
Key(r) == <<r.TARIH, r.FONKODU, r.FONUNVAN>>

\* the rows of df whose key is that of row r
Partners(df, r) == SelectSeq(df, LAMBDA x : Key(x) = Key(r))

\* line 96: "{:.6f}".format(x) of a whole number
Format6(x) == <<x, "000000">>

\* a left row and a right row joined, lines 95-96: FIYAT_6DEC after FIYAT
Joined(l, r) ==
    [TARIH |-> l.TARIH, FONKODU |-> l.FONKODU, FONUNVAN |-> l.FONUNVAN,
     FIYAT |-> l.FIYAT, FIYAT_6DEC |-> Format6(l.FIYAT), HS |-> r.HS]

\* mutant: how='left', an info row without a partner is kept
MergedLeft(info, allocation) ==
    ConcatAll([i \in 1..Len(info) |->
        IF Partners(allocation, info[i]) = <<>>
        THEN <<[TARIH |-> info[i].TARIH, FONKODU |-> info[i].FONKODU,
                FONUNVAN |-> info[i].FONUNVAN, FIYAT |-> info[i].FIYAT,
                FIYAT_6DEC |-> Format6(info[i].FIYAT), HS |-> NaN]>>
        ELSE [j \in 1..Len(Partners(allocation, info[i])) |->
                Joined(info[i], Partners(allocation, info[i])[j])]])

\* lines 94-97: pd.merge(df_info, df_allocation, on=[TARIH, FONKODU, FONUNVAN]),
\* an inner join in the order of the left rows
Merged(info, allocation) ==
    ConcatAll([i \in 1..Len(info) |->
        [j \in 1..Len(Partners(allocation, info[i])) |->
            Joined(info[i], Partners(allocation, info[i])[j])]])

\* lines 67-98: what get_fund_data ends with for the two answers it gets; the
\* allocation answer is read only when the info answer got that far
FundData(info, allocation) ==
    IF InfoFailed(info.status) THEN [outcome |-> "returned", df |-> None]
    ELSE IF BodyOutcome(info.body) # "ok" THEN [outcome |-> BodyOutcome(info.body), df |-> None]
    ELSE IF BodyOutcome(allocation.body) # "ok"
    THEN [outcome |-> BodyOutcome(allocation.body), df |-> None]
    ELSE [outcome |-> "returned",
          df |-> Merged(InfoTable(info.body), AllocationTable(allocation.body))]

\* the timestamps of the answers: midnight and noon of day 0, midnight of day 1
Timestamps == {0, StampsPerDay \div 2, StampsPerDay}

FundNames == {<<"AFA", "Fund A">>, <<"AFB", "Fund B">>}

InfoRows == {[TARIH |-> ms, FONKODU |-> f[1], FONUNVAN |-> f[2], FIYAT |-> 1] :
                ms \in Timestamps, f \in FundNames}

AllocationRows == {[TARIH |-> ms, FONKODU |-> f[1], FONUNVAN |-> f[2], HS |-> 100] :
                    ms \in Timestamps, f \in FundNames}

Bodies(rows) == {NotJson} \cup {[json |-> TRUE, data |-> d] : d \in SeqUpTo(rows, MaxRows)}

\* lines 67-70: the info request failed, None returned
FundDataInfoFails ==
    /\ t_pc = "start"
    /\ \E status \in Statuses :
        /\ InfoFailed(status)
        /\ t_requests' = Append(t_requests, [url |-> "BindHistoryInfo", status |-> status])
        /\ t_result' = None
        /\ t_pc' = "returned"
    /\ UNCHANGED <<df_info, df_allocation>>
    /\ UNCHANGED <<fonVars, regVars, rangeVars>>

\* lines 67-72: the info request answered with a body that makes the call raise
FundDataInfoRaises ==
    /\ t_pc = "start"
    /\ \E status \in Statuses, body \in Bodies(InfoRows) :
        /\ ~InfoFailed(status)
        /\ BodyOutcome(body) # "ok"
        /\ t_requests' = Append(t_requests, [url |-> "BindHistoryInfo", status |-> status])
        /\ t_pc' = BodyOutcome(body)
    /\ UNCHANGED <<df_info, df_allocation, t_result>>
    /\ UNCHANGED <<fonVars, regVars, rangeVars>>

\* lines 67-79: the info request answered with rows
FundDataInfo ==
    /\ t_pc = "start"
    /\ \E status \in Statuses, body \in Bodies(InfoRows) :
        /\ ~InfoFailed(status)
        /\ BodyOutcome(body) = "ok"
        /\ t_requests' = Append(t_requests, [url |-> "BindHistoryInfo", status |-> status])
        /\ df_info' = InfoTable(body)
        /\ t_pc' = "info"
    /\ UNCHANGED <<df_allocation, t_result>>
    /\ UNCHANGED <<fonVars, regVars, rangeVars>>

\* lines 83-85: the allocation request, its status unread, answered with a body
\* that makes the call raise
FundDataAllocationRaises ==
    /\ t_pc = "info"
    /\ \E status \in Statuses, body \in Bodies(AllocationRows) :
        /\ BodyOutcome(body) # "ok"
        /\ t_requests' = Append(t_requests, [url |-> "BindHistoryAllocation", status |-> status])
        /\ t_pc' = BodyOutcome(body)
    /\ UNCHANGED <<df_info, df_allocation, t_result>>
    /\ UNCHANGED <<fonVars, regVars, rangeVars>>

\* lines 83-98: the allocation request answered with rows, the merged table returned
FundDataReturns ==
    /\ t_pc = "info"
    /\ \E status \in Statuses, body \in Bodies(AllocationRows) :
        /\ BodyOutcome(body) = "ok"
        /\ t_requests' = Append(t_requests, [url |-> "BindHistoryAllocation", status |-> status])
        /\ df_allocation' = AllocationTable(body)
        /\ t_result' = Merged(df_info, df_allocation')
        /\ t_pc' = "returned"
    /\ UNCHANGED df_info
    /\ UNCHANGED <<fonVars, regVars, rangeVars>>

(***************************************************************************)
(* get_fund_data_for_years.  A datetime is a number of ticks, TicksPerDay  *)
(* to the day; a date text DD.MM.YYYY is the number of its day.            *)
(***************************************************************************)
\* line 123: the most years served
YearsLimit == 5
\* line 126: the days counted to a year
DaysPerYear == 365
\* lines 133-134: the days of a chunk
ChunkDays == 60
\* line 137: the days the cursor is moved past the start of a chunk
CursorStep == 1

\* timedelta(days=n)
Timedelta(n) == n * TicksPerDay

\* timedelta.days of a difference that is not negative
DeltaDays(delta) == delta \div TicksPerDay

\* strftime('%d.%m.%Y'): the day of a datetime, the time of day dropped
Strftime(t) == t \div TicksPerDay

\* mutant: years is not clamped
ClampNone(y) == y

\* lines 123-124: years above 5 become 5 (y counts 1/TicksPerDay of a year)
Clamp(y) == IF y > YearsLimit * TicksPerDay THEN YearsLimit * TicksPerDay ELSE y

\* line 126: timedelta(days=365 * years), in ticks
MaxDaysDelta(y) == DaysPerYear * y

\* line 133: (date1 - start_date).days > 60
MoreThanAChunk(d1, start) == DeltaDays(d1 - start) > ChunkDays

\* line 134: date2 = date1 - timedelta(days=60)
ChunkStart(d1) == d1 - Timedelta(ChunkDays)

\* mutant: the cursor moves two days past the start of the chunk
NextCursorTwoDays(d2) == d2 - Timedelta(CursorStep + 1)

\* line 137: date1 = date2 - timedelta(days=1)
NextCursor(d2) == d2 - Timedelta(CursorStep)

\* what a chunk call returned: None, or a DataFrame with its rows
NoneResult == [is_none |-> TRUE, rows |-> <<>>]
FrameResult(df) == [is_none |-> FALSE, rows |-> df]

\* the tables among the results, None dropped
RECURSIVE Frames(_)
Frames(results) ==
    IF results = <<>> THEN <<>>
    ELSE (IF Head(results).is_none THEN <<>> ELSE <<Head(results).rows>>)
         \o Frames(Tail(results))

RECURSIVE Reversed(_)
Reversed(seq) == IF seq = <<>> THEN <<>> ELSE Reversed(Tail(seq)) \o <<Head(seq)>>

\* mutant: the chunks put back in the order of their dates, the oldest first
PdConcatOldestFirst(results) == ConcatAll(Reversed(Frames(results)))

\* line 144: pd.concat(dataframes, ignore_index=True), None dropped, the tables
\* one after the other; defined when not every entry is None
PdConcat(results) == ConcatAll(Frames(results))

\* line 144: pd.concat raises when every object passed is None
PdConcatRaises(results) == Frames(results) = <<>>

\* the data the server holds for the days bastarih..bittarih of one fund: here a
\* row for the first and a row for the last day asked for
ServerData(bastarih, bittarih, value) ==
    IF bastarih = bittarih
    THEN <<[TARIH |-> bastarih * StampsPerDay, FONKODU |-> "AFA", FONUNVAN |-> "Fund A"] @@ value>>
    ELSE <<[TARIH |-> bastarih * StampsPerDay, FONKODU |-> "AFA", FONUNVAN |-> "Fund A"] @@ value,
           [TARIH |-> bittarih * StampsPerDay, FONKODU |-> "AFA", FONUNVAN |-> "Fund A"] @@ value>>

\* the answers to the info request of a chunk
InfoAnswers(bastarih, bittarih) ==
    {[status |-> st, body |-> b] :
        st \in Statuses,
        b \in {NotJson, [json |-> TRUE, data |-> ServerData(bastarih, bittarih, [FIYAT |-> 1])]}}

\* the answers to the allocation request of a chunk
AllocationAnswers(bastarih, bittarih) ==
    {[status |-> 200, body |-> b] :
        b \in {NotJson, [json |-> TRUE, data |-> ServerData(bastarih, bittarih, [HS |-> 100])]}}

\* lines 133-142: the calls the walk makes from cursor d1 down to start
RECURSIVE WalkCalls(_, _)
WalkCalls(d1, start) ==
    IF MoreThanAChunk(d1, start)
    THEN <<[bastarih |-> Strftime(ChunkStart(d1)), bittarih |-> Strftime(d1)]>>
         \o WalkCalls(NextCursor(ChunkStart(d1)), start)
    ELSE <<[bastarih |-> Strftime(start), bittarih |-> Strftime(d1)]>>

NoneCount(results) == Len(results) - Len(Frames(results))

\* lines 123-132: years clamped, the window and the cursor set
RangeStart ==
    /\ r_pc = "start"
    /\ years' = Clamp(arg_years)
    /\ start_date' = end_date - MaxDaysDelta(years')
    /\ date1' = end_date
    /\ r_pc' = "loop"
    /\ UNCHANGED <<arg_years, end_date, r_calls, dataframes, final_df>>
    /\ UNCHANGED <<fonVars, regVars, fetchVars>>

\* lines 133-138: one chunk of 60 days fetched, the cursor moved
RangeLoopChunk ==
    /\ r_pc = "loop"
    /\ MoreThanAChunk(date1, start_date)
    /\ LET date2 == ChunkStart(date1)
           bastarih == Strftime(date2)
           bittarih == Strftime(date1)
       IN  \E info \in InfoAnswers(bastarih, bittarih),
              allocation \in AllocationAnswers(bastarih, bittarih) :
            LET fund_df == FundData(info, allocation)
            IN  /\ fund_df.outcome = "returned"
                /\ InfoFailed(info.status) => NoneCount(dataframes) < MaxFailures
                /\ r_calls' = Append(r_calls, [bastarih |-> bastarih, bittarih |-> bittarih])
                /\ date1' = NextCursor(date2)
                /\ dataframes' = Append(dataframes,
                        IF InfoFailed(info.status) THEN NoneResult ELSE FrameResult(fund_df.df))
    /\ UNCHANGED <<r_pc, arg_years, years, end_date, start_date, final_df>>
    /\ UNCHANGED <<fonVars, regVars, fetchVars>>

\* lines 135, 140: get_fund_data raises, and get_fund_data_for_years with it
RangeChunkRaises ==
    /\ r_pc = "loop"
    /\ LET bastarih == IF MoreThanAChunk(date1, start_date)
                       THEN Strftime(ChunkStart(date1)) ELSE Strftime(start_date)
           bittarih == Strftime(date1)
       IN  \E info \in InfoAnswers(bastarih, bittarih),
              allocation \in AllocationAnswers(bastarih, bittarih) :
            /\ FundData(info, allocation).outcome # "returned"
            /\ r_calls' = Append(r_calls, [bastarih |-> bastarih, bittarih |-> bittarih])
            /\ r_pc' = FundData(info, allocation).outcome
    /\ UNCHANGED <<arg_years, years, end_date, start_date, date1, dataframes, final_df>>
    /\ UNCHANGED <<fonVars, regVars, fetchVars>>

\* lines 139-145: the last chunk fetched from start_date to the cursor, the
\* results concatenated and returned; pd.concat raises when all of them are None
RangeFinalChunk ==
    /\ r_pc = "loop"
    /\ ~MoreThanAChunk(date1, start_date)
    /\ LET bastarih == Strftime(start_date)
           bittarih == Strftime(date1)
       IN  \E info \in InfoAnswers(bastarih, bittarih),
              allocation \in AllocationAnswers(bastarih, bittarih) :
            LET fund_df == FundData(info, allocation)
            IN  /\ fund_df.outcome = "returned"
                /\ InfoFailed(info.status) => NoneCount(dataframes) < MaxFailures
                /\ r_calls' = Append(r_calls, [bastarih |-> bastarih, bittarih |-> bittarih])
                /\ dataframes' = Append(dataframes,
                        IF InfoFailed(info.status) THEN NoneResult ELSE FrameResult(fund_df.df))
                /\ IF PdConcatRaises(dataframes')
                   THEN r_pc' = "ValueError" /\ UNCHANGED final_df
                   ELSE r_pc' = "returned" /\ final_df' = PdConcat(dataframes')
    /\ UNCHANGED <<arg_years, years, end_date, start_date, date1>>
    /\ UNCHANGED <<fonVars, regVars, fetchVars>>

fonIdle ==
    /\ fon_pc = "idle"
    /\ fon_tags = <<>>
    /\ fon_df = None

regIdle ==
    /\ g_pc = "idle"
    /\ g_next = 0
    /\ g_issued = <<>>
    /\ data1 = <<>>
    /\ data2 = <<>>
    /\ g_pages = <<>>
    /\ funds = None

fetchIdle ==
    /\ t_pc = "idle"
    /\ t_requests = <<>>
    /\ df_info = None
    /\ df_allocation = None
    /\ t_result = None

rangeIdle ==
    /\ r_pc = "idle"
    /\ arg_years = 0
    /\ years = 0
    /\ end_date = 0
    /\ start_date = 0
    /\ date1 = 0
    /\ r_calls = <<>>
    /\ dataframes = <<>>
    /\ final_df = None

InitListing ==
    /\ fon_pc = "start"
    /\ fon_tags = <<>>
    /\ fon_df = None
    /\ regIdle
    /\ fetchIdle
    /\ rangeIdle

InitRegistry ==
    /\ fonIdle
    /\ fetchIdle
    /\ rangeIdle
    /\ g_pc = "running"
    /\ g_next = 1
    /\ g_issued = <<>>
    /\ data1 = <<>>
    /\ data2 = <<>>
    /\ g_pages = <<>>
    /\ funds = None

NextRegistry ==
    \/ GetAllFetchRaises
    \/ GetAllListing
    \/ GetAllDetail
    \/ GetAllDetail2Raises
    \/ GetAllDetail2
    \/ GetAllReturns

SpecRegistry == InitRegistry /\ [][NextRegistry]_vars

InitFetch ==
    /\ fonIdle
    /\ regIdle
    /\ rangeIdle
    /\ t_pc = "start"
    /\ t_requests = <<>>
    /\ df_info = None
    /\ df_allocation = None
    /\ t_result = None

NextFetch ==
    \/ FundDataInfoFails
    \/ FundDataInfoRaises
    \/ FundDataInfo
    \/ FundDataAllocationRaises
    \/ FundDataReturns

SpecFetch == InitFetch /\ [][NextFetch]_vars

YearsArgs ==
    (0..(SmallYears * TicksPerDay))
    \cup {YearsLimit * TicksPerDay, YearsLimit * TicksPerDay + 1, MaxYears * TicksPerDay}

InitRange ==
    /\ fonIdle
    /\ regIdle
    /\ fetchIdle
    /\ r_pc = "start"
    /\ arg_years \in YearsArgs
    /\ years = 0
    /\ end_date \in {NowDay * TicksPerDay + t : t \in 0..(TicksPerDay - 1)}
    /\ start_date = 0
    /\ date1 = 0
    /\ r_calls = <<>>
    /\ dataframes = <<>>
    /\ final_df = None

NextRange ==
    \/ RangeStart
    \/ RangeLoopChunk
    \/ RangeChunkRaises
    \/ RangeFinalChunk

SpecRange == InitRange /\ [][NextRange]_vars

NextListing == FonDataRaises \/ FonDataReturns

SpecListing == InitListing /\ [][NextListing]_vars


(***************************************************************************)
(* Claims about fon_data, checked under SpecListing.                       *)
(***************************************************************************)
\* the number of links fon_data matched on the page it was answered with
MatchedCount == Len(HrefList(fon_tags))

\* C1, as stated: the table fon_data returns has exactly floor(n / 3) rows for n
\* matched links, row k built from the entries 3k-2, 3k-1, 3k, and no row has an
\* empty title.
C1_FloorRowsNoEmptyTitle ==
    fon_pc = "returned" =>
        /\ Len(fon_df) = MatchedCount \div 3
        /\ \A k \in 1..Len(fon_df) :
            /\ 3 * k <= MatchedCount
            /\ fon_df[k].CODE = HrefList(fon_tags)[3 * k - 2]
            /\ fon_df[k].TITLE = HrefList(fon_tags)[3 * k - 1]
            /\ fon_df[k].FOUNDER = HrefList(fon_tags)[3 * k]
            /\ fon_df[k].TITLE # ""

\* the entry of href_list that fills slot s (1 code, 2 title, 3 founder) of row k,
\* the empty text when the list ends before it
Slot(k, s) ==
    IF 3 * (k - 1) + s <= MatchedCount THEN HrefList(fon_tags)[3 * (k - 1) + s] ELSE ""

\* C1, amended: the table has ceil(n / 3) rows; row k holds the entries 3k-2, 3k-1,
\* 3k in encounter order; a trailing partial group is kept as a last row whose
\* missing slots are the empty text, so with non-empty link texts a row has an
\* empty title exactly when it is the last row and n mod 3 = 1.
C1_CeilRowsPartialKept ==
    fon_pc = "returned" =>
        /\ Len(fon_df) = (MatchedCount + 2) \div 3
        /\ \A k \in 1..Len(fon_df) :
            /\ fon_df[k].CODE = Slot(k, 1)
            /\ fon_df[k].TITLE = Slot(k, 2)
            /\ fon_df[k].FOUNDER = Slot(k, 3)
            /\ (fon_df[k].TITLE = "" <=> (k = Len(fon_df) /\ MatchedCount % 3 = 1))

\* C1 witness: four links matched among unmatched ones, the fourth alone in its row
C1_Witness ==
    /\ fon_pc = "returned"
    /\ MatchedCount = 4
    /\ Len(fon_tags) > MatchedCount
    /\ Len(fon_df) = 2
    /\ fon_df[2].TITLE = ""

(***************************************************************************)
(* Claims about get_all, checked under SpecRegistry.                       *)
(***************************************************************************)
\* the number of rows of df whose TITLE is t
Count(df, t) == Len(WithTitle(df, t))

TitleSet == {TitleOrder[i] : i \in 1..Len(TitleOrder)}

\* the titles seen in the listings
ListingTitles == {data1[i].TITLE : i \in 1..Len(data1)}

\* no title occurs in two rows of the listings
NoTitleRepeats == \A t \in ListingTitles : Count(data1, t) = 1

\* C2, as stated: with no title repeated in the listings, the registry has exactly
\* one row per distinct listing title, whatever the detail tables hold.
C2_OneRowPerListingTitle ==
    (g_pc = "returned" /\ NoTitleRepeats) =>
        /\ Len(funds) = Cardinality(ListingTitles)
        /\ \A t \in ListingTitles : Count(funds, t) = 1

\* the nine tables of line 239, the pages of one column concatenated
MergedTables ==
    << data1, data2[1] \o data2[2], data2[6], data2[7], data2[3] \o data2[4] \o data2[5],
       data2[8], data2[9], data2[10], data2[11] \o data2[12] >>

RECURSIVE Product(_)
Product(ns) == IF ns = <<>> THEN 1 ELSE Head(ns) * Product(Tail(ns))

\* the rows an outer merge gives title t: each table that holds t multiplies them
\* by its number of rows for t
ExpectedRows(t) ==
    IF \A i \in 1..Len(MergedTables) : Count(MergedTables[i], t) = 0 THEN 0
    ELSE Product([i \in 1..Len(MergedTables) |->
                    IF Count(MergedTables[i], t) = 0 THEN 1 ELSE Count(MergedTables[i], t)])

\* C2, amended: the registry holds the titles of the listings and of the detail
\* tables, and for each title as many rows as the product, over the nine merged
\* tables that hold it, of the number of rows they hold for it: one row for a
\* listing title only when no detail table holds it more than once, and rows also
\* for the titles found in detail tables alone.
C2_RowsPerTitle ==
    g_pc = "returned" =>
        /\ \A i \in 1..Len(funds) : funds[i].TITLE \in TitleSet
        /\ \A t \in TitleSet : Count(funds, t) = ExpectedRows(t)

\* C2 witness: a listing title that a detail table holds twice, two registry rows
C2_Witness ==
    /\ g_pc = "returned"
    /\ NoTitleRepeats
    /\ \E t \in ListingTitles :
        /\ \E i \in 2..Len(MergedTables) : Count(MergedTables[i], t) = 2
        /\ Count(funds, t) = 2

\* C3: a fetch answered with a non-success status aborts get_all: the call has
\* raised, no registry is returned, the failing fetch is the last one issued and
\* was issued once, and the fetches issued are the fixed sequence up to it.
C3_FailedFetchAborts ==
    (\E i \in 1..Len(g_issued) : g_issued[i].status \notin 200..299) =>
        /\ g_pc = "HTTPError"
        /\ funds = None
        /\ \A i \in 1..Len(g_issued) :
            /\ g_issued[i].name = FetchSequence[i].name
            /\ (g_issued[i].status \notin 200..299 => i = Len(g_issued))

\* C3 witness: a detail fetch fails after listings that held rows
C3_Witness ==
    /\ g_pc = "HTTPError"
    /\ Len(g_issued) > Len(url_ends)
    /\ Len(g_issued) < Len(FetchSequence)
    /\ data1 # <<>>
    /\ funds = None

(***************************************************************************)
(* Claims about get_fund_data, checked under SpecFetch.                    *)
(***************************************************************************)
\* the info request was answered with a status other than 200
InfoRequestFailed == t_requests # <<>> /\ t_requests[1].status # 200

\* the allocation request was posted
AllocationPosted == \E i \in 1..Len(t_requests) : t_requests[i].url = "BindHistoryAllocation"

\* C4, as stated: when the info request's status is not success the call returns
\* None, with no table built, and the allocation request is still posted in that
\* call.
C4_FailureStillPostsAllocation ==
    InfoRequestFailed =>
        /\ t_pc = "returned"
        /\ t_result = None
        /\ df_info = None
        /\ df_allocation = None
        /\ AllocationPosted

\* C4, amended: when the info request's status is not success the call returns
\* None (nothing raised, no table built), and the allocation request is not
\* posted in that call: the info request is the only one made.
C4_FailureReturnsNoneOneRequest ==
    InfoRequestFailed =>
        /\ t_pc = "returned"
        /\ t_result = None
        /\ df_info = None
        /\ df_allocation = None
        /\ ~AllocationPosted
        /\ Len(t_requests) = 1

\* C4 witness: the info request answered 404 or 500, the call over
C4_Witness ==
    /\ t_pc = "returned"
    /\ InfoRequestFailed
    /\ t_result = None

\* the call returned a merged table
ReturnedTable == t_pc = "returned" /\ ~InfoRequestFailed

KeysOf(df) == {Key(df[i]) : i \in 1..Len(df)}

\* C8: the merged table holds a row for a (date, fund code, fund title) key if and
\* only if the key occurs in the info table and in the allocation table.
C8_InnerJoinKeys ==
    ReturnedTable => KeysOf(t_result) = KeysOf(df_info) \cap KeysOf(df_allocation)

\* C8 witness: the two tables share a key and each holds a key the other lacks;
\* the merged table holds the shared key alone
C8_Witness ==
    /\ ReturnedTable
    /\ KeysOf(df_info) \ KeysOf(df_allocation) # {}
    /\ KeysOf(df_allocation) \ KeysOf(df_info) # {}
    /\ KeysOf(df_info) \cap KeysOf(df_allocation) # {}
    /\ Len(t_result) = 1

\* disjoint key sets give an empty merged table
C8_DisjointWitness ==
    /\ ReturnedTable
    /\ KeysOf(df_info) \cap KeysOf(df_allocation) = {}
    /\ t_result = <<>>

(***************************************************************************)
(* Claims about get_fund_data_for_years, checked under SpecRange.          *)
(***************************************************************************)
\* the walk ran to its end: every chunk was fetched and none of the calls raised
WalkDone == r_pc \in {"returned", "ValueError"}

\* the calendar days a call asks for, both ends included
Covered(call) == call.bastarih..call.bittarih

\* the two calls made last: every pair of calls made one after the other is this
\* pair in the state the later call leaves
Earlier == r_calls[Len(r_calls) - 1]
Later == r_calls[Len(r_calls)]

\* C5, as stated: between two calls made one after the other a boundary day is
\* left out of both: some day strictly between the later call's start and the
\* earlier call's end is covered by neither, and no day is covered by both.
C5_BoundaryDayGap ==
    Len(r_calls) >= 2 =>
        /\ \E d \in (Later.bastarih + 1)..(Earlier.bittarih - 1) :
            d \notin Covered(Earlier) \cup Covered(Later)
        /\ Covered(Earlier) \cap Covered(Later) = {}

\* C5, amended: taking a call to cover every day from its start date to its end
\* date, two calls made one after the other are contiguous: the later call ends on
\* the day just before the earlier call's start, so no day between them is left
\* uncovered and no day is covered by both.
C5_ChunksContiguous ==
    Len(r_calls) >= 2 =>
        /\ Later.bittarih + 1 = Earlier.bastarih
        /\ \A d \in Later.bastarih..Earlier.bittarih :
            d \in Covered(Earlier) \cup Covered(Later)
        /\ Covered(Earlier) \cap Covered(Later) = {}

\* C5 witness: a walk of half a year is over, three calls made
C5_Witness ==
    /\ WalkDone
    /\ arg_years = TicksPerDay \div 2
    /\ Len(r_calls) = 3

\* C6: an argument above 5 years gives the calls of 5 years, and no call starts
\* before now minus 5 x 365 days.
C6_ClampedToFiveYears ==
    /\ \A i \in 1..Len(r_calls) :
        r_calls[i].bastarih >= Strftime(end_date - Timedelta(YearsLimit * DaysPerYear))
    /\ (WalkDone /\ arg_years > YearsLimit * TicksPerDay) =>
        r_calls = WalkCalls(end_date, end_date - Timedelta(YearsLimit * DaysPerYear))

\* C6 witness: a walk for more than 5 years is over, its last call starting on the
\* day 5 x 365 days before now
C6_Witness ==
    /\ WalkDone
    /\ arg_years > YearsLimit * TicksPerDay
    /\ r_calls[Len(r_calls)].bastarih = Strftime(end_date) - YearsLimit * DaysPerYear

\* C7: every call spans at most 60 days from its start date to its end date,
\* the start not after the end; a call of the loop spans exactly 60 days, and the
\* final call runs from start_date to the last cursor.
C7_ChunkSpanAtMostSixty ==
    r_pc # "start" =>
        /\ \A i \in 1..Len(r_calls) :
            /\ r_calls[i].bastarih <= r_calls[i].bittarih
            /\ r_calls[i].bittarih - r_calls[i].bastarih <= ChunkDays
        /\ \A i \in 1..(Len(r_calls) - 1) :
            r_calls[i].bittarih - r_calls[i].bastarih = ChunkDays
        /\ WalkDone =>
            /\ r_calls[Len(r_calls)].bastarih = Strftime(start_date)
            /\ r_calls[Len(r_calls)].bittarih = Strftime(date1)

\* the rows of the tables among the first n chunk results
RowsOfFirst(n) == SumLen(Frames(SubSeq(dataframes, 1, n)))

\* C9: the calls are made newest first, each ending before the start of the one
\* before it; the last call of a finished walk starts at start_date; and the
\* returned table is the chunk tables one after the other in the order of the
\* calls, nothing dropped from them or moved.
C9_NewestFirstFetchOrder ==
    /\ \A i \in 1..(Len(r_calls) - 1) : r_calls[i + 1].bittarih < r_calls[i].bastarih
    /\ WalkDone => r_calls[Len(r_calls)].bastarih = Strftime(start_date)
    /\ r_pc = "returned" =>
        /\ Len(dataframes) = Len(r_calls)
        /\ Len(final_df) = RowsOfFirst(Len(dataframes))
        /\ \A i \in 1..Len(dataframes) :
            ~dataframes[i].is_none =>
                SubSeq(final_df, RowsOfFirst(i - 1) + 1, RowsOfFirst(i)) = dataframes[i].rows

\* C9 witness: a returned table of three chunks, its first row newer than its last
C9_Witness ==
    /\ r_pc = "returned"
    /\ Len(r_calls) = 3
    /\ Len(final_df) = 6
    /\ final_df[1].TARIH > final_df[6].TARIH
    /\ final_df[1].TARIH < final_df[2].TARIH

\* C10: chunks that come back None change nothing of the walk: the calls are those
\* of a walk where every chunk succeeds, and the call returns the rows of the
\* chunks that succeeded, in the order of the calls.
C10_FailedChunksSkipped ==
    WalkDone =>
        /\ r_calls = WalkCalls(end_date, start_date)
        /\ r_pc = "returned"
        /\ final_df = ConcatAll(Frames(dataframes))

====
